---------------------------- MODULE Spec2Model ----------------------------
(***************************************************************************)
(* A model of brachiograph.py: the BrachioGraph plotter driver and its Pen. *)
(*                                                                         *)
(* Numbers.  The program computes in Python floats.  Here                  *)
(*   - positions (current_x, current_y, the points of a drawing, bounds)   *)
(*     are exact rationals <<numerator, denominator>> in lowest terms;     *)
(*   - inside math.sqrt and the trigonometric functions a length is a      *)
(*     fixed-point integer counting 1/Unit of a drawing unit, and a sine   *)
(*     or cosine is an integer counting 1/TrigScale;                       *)
(*   - an angle is a whole number of degrees (math.asin and math.acos      *)
(*     return the nearest degree);                                         *)
(*   - a pulse-width is an integer number of microseconds.                 *)
(* A position the floats reach by repeated addition is off its rational   *)
(* by the rounding of the last bits; on the inner edge of the reach that   *)
(* can make the program raise one interpolation step before the model.     *)
(* sleep() calls and tqdm's progress bars change no state and are left     *)
(* out; the lines printed by park(), quiet() and drive_xy() are kept.       *)
(* The servo_?_angle_pws calibration tables are left empty, as in the      *)
(* constructor's defaults, so angles_to_pw_1/2 are the naive functions.    *)
(***************************************************************************)
EXTENDS Integers, Sequences, FiniteSets, TLC

(***************************************************************************)
(* Fixed-point scales of the float model.                                  *)
(***************************************************************************)
Unit == 1000
TrigScale == 10000

Abs(n) == IF n < 0 THEN -n ELSE n
Sign(n) == IF n < 0 THEN -1 ELSE IF n > 0 THEN 1 ELSE 0

RECURSIVE GCD(_, _)
GCD(a, b) == IF b = 0 THEN a ELSE GCD(b, a % b)

(***************************************************************************)
(* Rationals: <<n, d>> with d > 0 and gcd(|n|, d) = 1.                    *)
(***************************************************************************)
Rat(n, d) ==
    LET s == IF d < 0 THEN -1 ELSE 1
        g == GCD(Abs(n), Abs(d))
    IN  <<(s * n) \div g, (s * d) \div g>>
RInt(n) == <<n, 1>>
RAdd(a, b) ==
    LET g == GCD(a[2], b[2])
    IN  Rat(a[1] * (b[2] \div g) + b[1] * (a[2] \div g), a[2] * (b[2] \div g))
RNeg(a) == <<-a[1], a[2]>>
RSub(a, b) == RAdd(a, RNeg(b))
RMul(a, b) ==
    LET g1 == GCD(Abs(a[1]), b[2])
        g2 == GCD(Abs(b[1]), a[2])
    IN  Rat((a[1] \div g1) * (b[1] \div g2), (a[2] \div g2) * (b[2] \div g1))
RDiv(a, b) == RMul(a, IF b[1] < 0 THEN <<-b[2], -b[1]>> ELSE <<b[2], b[1]>>)
RLe(a, b) == a[1] * b[2] <= b[1] * a[2]
\* min where max is meant
RMin(a, b) == IF RLe(a, b) THEN a ELSE b
RMax(a, b) == IF RLe(b, a) THEN a ELSE b
RIsZero(a) == a[1] = 0

\* n / d rounded to the nearest integer, halves away from zero (d > 0).
RoundDiv(n, d) == Sign(n) * ((2 * Abs(n) + d) \div (2 * d))

\* A rational as a float of the model: the nearest multiple of 1/Unit.
ToFix(a) == (a[1] \div a[2]) * Unit + RoundDiv((a[1] % a[2]) * Unit, a[2])

(***************************************************************************)
(* math.sqrt on fixed-point squares: the nearest integer to sqrt(n).       *)
(***************************************************************************)
RECURSIVE SqrtSearch(_, _, _)
SqrtSearch(n, lo, hi) ==
    \* lo * lo <= n < hi * hi
    IF hi - lo <= 1 THEN lo
    ELSE LET mid == (lo + hi) \div 2
         IN  IF mid * mid <= n THEN SqrtSearch(n, mid, hi)
                               ELSE SqrtSearch(n, lo, mid)
Sqrt(n) ==
    LET s == SqrtSearch(n, 0, 46340)
    IN  IF n - s * s <= s THEN s ELSE s + 1

(***************************************************************************)
(* math.sin, math.cos, math.acos, math.asin over whole degrees.            *)
(* SinTab[d + 1] = round(TrigScale * sin(d degrees)), d = 0 .. 90.         *)
(***************************************************************************)
SinTab ==
  << 0, 175, 349, 523, 698, 872, 1045, 1219, 1392, 1564, 1736, 1908, 2079,
     2250, 2419, 2588, 2756, 2924, 3090, 3256, 3420, 3584, 3746, 3907, 4067, 4226,
     4384, 4540, 4695, 4848, 5000, 5150, 5299, 5446, 5592, 5736, 5878, 6018, 6157,
     6293, 6428, 6561, 6691, 6820, 6947, 7071, 7193, 7314, 7431, 7547, 7660, 7771,
     7880, 7986, 8090, 8192, 8290, 8387, 8480, 8572, 8660, 8746, 8829, 8910, 8988,
     9063, 9135, 9205, 9272, 9336, 9397, 9455, 9511, 9563, 9613, 9659, 9703, 9744,
     9781, 9816, 9848, 9877, 9903, 9925, 9945, 9962, 9976, 9986, 9994, 9998, 10000 >>

Sin(deg) ==
    LET d == deg % 360
    IN  IF d <= 90 THEN SinTab[d + 1]
        ELSE IF d <= 180 THEN SinTab[180 - d + 1]
        ELSE IF d <= 270 THEN -SinTab[d - 180 + 1]
        ELSE -SinTab[360 - d + 1]
Cos(deg) == Sin(deg + 90)

RECURSIVE AcosSearch(_, _, _)
AcosSearch(c, lo, hi) ==
    \* Cos(lo) >= c >= Cos(hi)
    IF hi - lo <= 1
    THEN IF Cos(lo) - c <= c - Cos(hi) THEN lo ELSE hi
    ELSE LET mid == (lo + hi) \div 2
         IN  IF Cos(mid) >= c THEN AcosSearch(c, mid, hi)
                              ELSE AcosSearch(c, lo, mid)
\* c in -TrigScale .. TrigScale; the result is in 0 .. 180.
Acos(c) == AcosSearch(c, 0, 180)
\* s in -TrigScale .. TrigScale; the result is in -90 .. 90.
Asin(s) == 90 - Acos(s)

\* floor(r * 10^digits / d) for 0 <= r < d, digit by digit so that no
\* intermediate product leaves TLC's integers.
RECURSIVE FracDigits(_, _, _)
FracDigits(r, d, digits) ==
    IF digits = 0 THEN 0
    ELSE LET t == r * 10
         IN  (t \div d) * (10 ^ (digits - 1)) + FracDigits(t % d, d, digits - 1)
\* The float n / d as a multiple of 1/TrigScale (d > 0), truncated.
Ratio(n, d) ==
    Sign(n) * ((Abs(n) \div d) * TrigScale + FracDigits(Abs(n) % d, d, 4))

(***************************************************************************)
(* Kinematics.  inner and outer are the arm lengths (whole drawing units). *)
(* xy_to_angles raises ZeroDivisionError at the pivot and ValueError (math  *)
(* domain error) when an acos argument leaves [-1, 1].                     *)
(***************************************************************************)
xy_to_angles(inner, outer, x, y) ==
    LET X == ToFix(x)
        Y == ToFix(y)
        I == inner * Unit
        O == outer * Unit
        hypotenuse == Sqrt(X * X + Y * Y)
    IN  IF hypotenuse = 0
        THEN [err |-> "ZeroDivisionError", angle_1 |-> 0, angle_2 |-> 0]
        ELSE
        LET hypotenuse_angle == Asin(Ratio(X, hypotenuse))
            n1 == hypotenuse * hypotenuse + I * I - O * O
            d1 == 2 * hypotenuse * I
            n2 == I * I + O * O - hypotenuse * hypotenuse
            d2 == 2 * I * O
        IN  IF Abs(n1) > d1 \/ Abs(n2) > d2
            THEN [err |-> "ValueError: math domain error", angle_1 |-> 0, angle_2 |-> 0]
            ELSE LET inner_angle == Acos(Ratio(n1, d1))
                     outer_angle == Acos(Ratio(n2, d2))
                 IN  [err |-> "none",
                      angle_1 |-> hypotenuse_angle - inner_angle,
                      angle_2 |-> 180 - outer_angle]

\* The result is in fixed point (1/Unit); err as in xy_to_angles.
angles_to_xy(inner, outer, shoulder_motor_angle, elbow_motor_angle) ==
    LET I == inner * Unit
        O == outer * Unit
        hypotenuse ==
            Sqrt(I * I + O * O
                 - ((2 * I * O) \div TrigScale) * Cos(180 - elbow_motor_angle))
    IN  IF hypotenuse = 0
        THEN [err |-> "ZeroDivisionError", x |-> 0, y |-> 0]
        ELSE
        LET n == hypotenuse * hypotenuse + I * I - O * O
            d == 2 * hypotenuse * I
        IN  IF Abs(n) > d
            THEN [err |-> "ValueError: math domain error", x |-> 0, y |-> 0]
            ELSE LET base_angle == Acos(Ratio(n, d))
                     inner_angle == base_angle + shoulder_motor_angle
                 IN  [err |-> "none",
                      x |-> RoundDiv(Sin(inner_angle) * hypotenuse, TrigScale),
                      y |-> RoundDiv(Cos(inner_angle) * hypotenuse, TrigScale)]

(***************************************************************************)
(* Program constants: the constructor's defaults, the servo pins and the   *)
(* limits of the pulse-width band.                                         *)
(***************************************************************************)
servo_1_zero == 1500
servo_2_zero == 1500
servo_1_degree_ms == -10
servo_2_degree_ms == 10
pw_up == 1500
pw_down == 1100
ShoulderPin == 14
ElbowPin == 15
PenPin == 18
MinPulseWidth == 500
MaxPulseWidth == 2500
DefaultInterpolate == 10

\* Python's None, and an attribute no statement has assigned yet.
None == <<>>

VARIABLES
    phase,           \* "new": no object yet; "ready": the object exists;
                     \* "raised": a call raised, which ends the program
    INNER_ARM, OUTER_ARM, virtual_mode, bounds,
    current_x, current_y,
    angles,          \* <<angle_1, angle_2>>, or None while they are unassigned
    virtual_pw_1, virtual_pw_2,
    pen_virtual_pw,  \* Pen.virtual_pw
    rpi,             \* the pulse-width pigpio holds for each servo pin
    call,            \* the last call: its name, arguments and outcome
    pre,             \* current_x, current_y, angles when the last call began
    writes,          \* the actuator writes of the last call, in order
    lines,           \* the caller's list of lines after the last call
    last_xy,         \* target of the last call when it was an xy() that
                     \* returned, else None
    jogs,            \* key presses handled by drive_xy so far
    probe            \* the last kinematics round trip tried

vars == <<phase, INNER_ARM, OUTER_ARM, virtual_mode, bounds, current_x,
          current_y, angles, virtual_pw_1, virtual_pw_2, pen_virtual_pw, rpi,
          call, pre, writes, lines, last_xy, jogs, probe>>

(***************************************************************************)
(* The object's mutable fields as one record, so that a method is an       *)
(* operator from record to record.  err is the exception in flight         *)
(* ("none": none); every method passes a record with an exception on       *)
(* unchanged, as a raise unwinds its callers.  ret is the returned value.  *)
(***************************************************************************)
Self ==
    [x |-> current_x, y |-> current_y, angles |-> angles,
     virtual_pw_1 |-> virtual_pw_1, virtual_pw_2 |-> virtual_pw_2,
     pen_virtual_pw |-> pen_virtual_pw, rpi |-> rpi,
     log |-> <<>>, err |-> "none", ret |-> "None"]

Raise(m, e) == [m EXCEPT !.err = e]
Wrote(sink, ch, pw) == [sink |-> sink, ch |-> ch, pw |-> pw]
\* print(text): a line on the standard output.
Said(m, text) == [m EXCEPT !.log = Append(@, [sink |-> "stdout", text |-> text])]

(***************************************************************************)
(* Pen.  Pen.__init__ assigns self.virtual_mode only when bg.virtual_mode  *)
(* is true; otherwise reading it in up() and down() raises AttributeError. *)
(***************************************************************************)
Pen_down(m) ==
    IF m.err # "none" THEN m
    ELSE IF ~virtual_mode THEN Raise(m, "AttributeError")
    ELSE [m EXCEPT !.pen_virtual_pw = pw_down,
                   !.log = Append(@, Wrote("virtual", PenPin, pw_down))]

Pen_up(m) ==
    IF m.err # "none" THEN m
    ELSE IF ~virtual_mode THEN Raise(m, "AttributeError")
    ELSE [m EXCEPT !.pen_virtual_pw = pw_up,
                   !.log = Append(@, Wrote("virtual", PenPin, pw_up))]

(***************************************************************************)
(* Hardware-related methods.                                               *)
(***************************************************************************)
naive_angles_to_pulse_widths_1(angle) ==
    (angle + 90) * servo_1_degree_ms + servo_1_zero

naive_angles_to_pulse_widths_2(angle) ==
    (angle - 90) * servo_2_degree_ms + servo_2_zero

angles_to_pulse_widths(angle_1, angle_2) ==
    <<naive_angles_to_pulse_widths_1(angle_1),
      naive_angles_to_pulse_widths_2(angle_2)>>

set_pulse_widths(m, pw_1, pw_2) ==
    IF m.err # "none" THEN m
    ELSE IF virtual_mode
    THEN IF /\ MinPulseWidth < pw_1 /\ pw_1 < MaxPulseWidth
            /\ MinPulseWidth < pw_2 /\ pw_2 < MaxPulseWidth
         THEN LET v1 == naive_angles_to_pulse_widths_1(pw_1)
                  v2 == naive_angles_to_pulse_widths_2(pw_2)
              IN  [m EXCEPT !.virtual_pw_1 = v1, !.virtual_pw_2 = v2,
                            !.log = @ \o <<Wrote("virtual", ShoulderPin, v1),
                                           Wrote("virtual", ElbowPin, v2)>>]
         ELSE Raise(m, "ValueError")
    ELSE [m EXCEPT !.rpi = [@ EXCEPT ![ShoulderPin] = pw_1, ![ElbowPin] = pw_2],
                   !.log = @ \o <<Wrote("rpi", ShoulderPin, pw_1),
                                  Wrote("rpi", ElbowPin, pw_2)>>]

get_pulse_widths(m) ==
    IF virtual_mode THEN <<m.virtual_pw_1, m.virtual_pw_2>>
    ELSE <<m.rpi[ShoulderPin], m.rpi[ElbowPin]>>

set_angles(m, angle_1, angle_2) ==
    IF m.err # "none" THEN m
    ELSE LET pw == angles_to_pulse_widths(angle_1, angle_2)
             m1 == set_pulse_widths(m, pw[1], pw[2])
         IN  IF m1.err # "none" THEN m1
             ELSE [m1 EXCEPT !.angles = <<angle_1, angle_2>>]

quiet(m) ==
    IF m.err # "none" THEN m
    ELSE IF virtual_mode THEN Said(m, "Going quiet")
    ELSE [m EXCEPT !.rpi = [p \in DOMAIN @ |-> 0],
                   !.log = @ \o <<Wrote("rpi", ShoulderPin, 0),
                                  Wrote("rpi", ElbowPin, 0),
                                  Wrote("rpi", PenPin, 0)>>]

(***************************************************************************)
(* xy: moves the pen to the xy position; optionally draws.                 *)
(***************************************************************************)
\* int(length * interpolate) or 1, length = sqrt(x_length^2 + y_length^2)
\* The step count with round() in place of int().
no_of_steps_rounded(x_length, y_length, interpolate) ==
    LET XL == ToFix(x_length)
        YL == ToFix(y_length)
        length == Sqrt(XL * XL + YL * YL)
        n == RoundDiv(length * interpolate, Unit)
    IN  IF n = 0 THEN 1 ELSE n

no_of_steps(x_length, y_length, interpolate) ==
    LET XL == ToFix(x_length)
        YL == ToFix(y_length)
        length == Sqrt(XL * XL + YL * YL)
        n == (length * interpolate) \div Unit
    IN  IF n = 0 THEN 1 ELSE n

\* The loop of xy from its step-th pass on.
RECURSIVE xy_steps(_, _, _, _, _)
xy_steps(m, step, n, length_of_step_x, length_of_step_y) ==
    IF step = n \/ m.err # "none" THEN m
    ELSE LET m1 == [m EXCEPT !.x = RAdd(@, length_of_step_x),
                             !.y = RAdd(@, length_of_step_y)]
             a == xy_to_angles(INNER_ARM, OUTER_ARM, m1.x, m1.y)
         IN  IF a.err # "none" THEN Raise(m1, a.err)
             ELSE xy_steps(set_angles(m1, a.angle_1, a.angle_2), step + 1, n,
                           length_of_step_x, length_of_step_y)

xy(m, x, y, interpolate, draw) ==
    IF m.err # "none" THEN m
    ELSE
    LET m1 == IF draw THEN Pen_down(m) ELSE Pen_up(m)
        a == xy_to_angles(INNER_ARM, OUTER_ARM, x, y)
    IN  IF m1.err # "none" THEN m1
        ELSE IF a.err # "none" THEN Raise(m1, a.err)
        ELSE IF angles_to_pulse_widths(a.angle_1, a.angle_2) = get_pulse_widths(m1)
        THEN [m1 EXCEPT !.x = x, !.y = y]
        ELSE LET x_length == RSub(x, m1.x)
                 y_length == RSub(y, m1.y)
                 n == no_of_steps(x_length, y_length, interpolate)
             IN  xy_steps(m1, 0, n, RDiv(x_length, RInt(n)),
                          RDiv(y_length, RInt(n)))

(***************************************************************************)
(* Methods that only call other methods.  Such a method is the sequence of *)
(* the calls it makes on the object, in order; Run makes them one after    *)
(* another and stops at the first that raises.                             *)
(***************************************************************************)
Step_xy(x, y, interpolate, draw) ==
    [op |-> "xy", x |-> x, y |-> y, interpolate |-> interpolate, draw |-> draw]
Step_pen_up == [op |-> "pen.up"]
Step_quiet == [op |-> "quiet"]
Step_print(text) == [op |-> "print", text |-> text]
Step_raise(e) == [op |-> "raise", err |-> e]
Step_return(v) == [op |-> "return", ret |-> v]

Or(a, b) == IF a # None THEN a ELSE b
Return(m, v) == [m EXCEPT !.ret = v]

Exec(m, s) ==
    CASE s.op = "xy" -> xy(m, s.x, s.y, s.interpolate, s.draw)
      [] s.op = "pen.up" -> Pen_up(m)
      [] s.op = "quiet" -> quiet(m)
      [] s.op = "print" -> Said(m, s.text)
      [] s.op = "raise" -> Raise(m, s.err)
      [] s.op = "return" -> Return(m, s.ret)

RECURSIVE Run(_, _, _)
Run(m, steps, k) ==
    IF k > Len(steps) \/ m.err # "none" THEN m
    ELSE Run(Exec(m, steps[k]), steps, k + 1)

\* park() without its last statement, self.quiet()
park_without_quiet ==
    (IF virtual_mode THEN <<Step_print("Parking")>> ELSE <<>>)
    \o <<Step_pen_up,
         Step_xy(RInt(-INNER_ARM), RInt(OUTER_ARM), DefaultInterpolate, FALSE)>>

park ==
    (IF virtual_mode THEN <<Step_print("Parking")>> ELSE <<>>)
    \o <<Step_pen_up,
         Step_xy(RInt(-INNER_ARM), RInt(OUTER_ARM), DefaultInterpolate, FALSE),
         Step_quiet>>

(***************************************************************************)
(* Drawing methods.  A point is <<x, y>>, a line a sequence of points, a   *)
(* drawing a sequence of lines; a bounds is <<min x, min y, max x, max y>> *)
(* of integers, or None.                                                   *)
(***************************************************************************)
draw(x, y, interpolate) == <<Step_xy(x, y, interpolate, TRUE)>>

pre_start_position(start, end) ==
    LET diff_x == RSub(start[1], end[1])
        diff_y == RSub(start[2], end[2])
        half(d) == <<Sign(d[1]), 2>>
    IN  <<IF ~RIsZero(diff_x) THEN RAdd(start[1], half(diff_x)) ELSE start[1],
          IF ~RIsZero(diff_y) THEN RAdd(start[2], half(diff_y)) ELSE start[2]>>

draw_line(start, end, interpolate, pre_start) ==
    LET p == pre_start_position(start, end)
    IN  (IF pre_start THEN <<Step_xy(p[1], p[2], interpolate, FALSE)>> ELSE <<>>)
        \o <<Step_xy(start[1], start[2], interpolate, FALSE),
             Step_xy(end[1], end[2], interpolate, TRUE)>>

\* x_values_in_lines (c = 1) and y_values_in_lines (c = 2), with min and max.
ValuesInLines(ls, c) ==
    UNION {{ls[k][j][c] : j \in DOMAIN ls[k]} : k \in DOMAIN ls}
MinOf(ls, c) ==
    CHOOSE v \in ValuesInLines(ls, c) : \A w \in ValuesInLines(ls, c) : RLe(v, w)
MaxOf(ls, c) ==
    CHOOSE v \in ValuesInLines(ls, c) : \A w \in ValuesInLines(ls, c) : RLe(w, v)

\* The condition with (x >= y) == (box_x >= box_y) in place of the code's.
orientation_by_equivalence(x_range, y_range, box_x_range, box_y_range) ==
    RLe(y_range, x_range) = RLe(box_y_range, box_x_range)

\* The condition of plot_lines's if: drawing and box are both landscape, or
\* both portrait; a square one is both.
same_orientation(x_range, y_range, box_x_range, box_y_range) ==
    \/ RLe(y_range, x_range) /\ RLe(box_y_range, box_x_range)
    \/ RLe(x_range, y_range) /\ RLe(box_x_range, box_y_range)

\* What plot_lines derives from the drawing and the bounds before its
\* fitting loop: the ranges, the orientation decision and the divider.
Fitting(ls, b) ==
    LET x_range == RSub(MaxOf(ls, 1), MinOf(ls, 1))
        y_range == RSub(MaxOf(ls, 2), MinOf(ls, 2))
        x_mid_point == RDiv(RAdd(MaxOf(ls, 1), MinOf(ls, 1)), RInt(2))
        y_mid_point == RDiv(RAdd(MaxOf(ls, 2), MinOf(ls, 2)), RInt(2))
        box_x_range == RInt(b[3] - b[1])
        box_y_range == RInt(b[4] - b[2])
        same == same_orientation(x_range, y_range, box_x_range, box_y_range)
    IN  [x_range |-> x_range, y_range |-> y_range,
         box_x_range |-> box_x_range, box_y_range |-> box_y_range,
         box_x_mid_point |-> Rat(b[1] + b[3], 2),
         box_y_mid_point |-> Rat(b[2] + b[4], 2),
         rotate |-> ~same,
         divider |-> IF same
                     THEN RMax(RDiv(x_range, box_x_range), RDiv(y_range, box_y_range))
                     ELSE RMax(RDiv(x_range, box_y_range), RDiv(y_range, box_x_range)),
         x_mid_point |-> IF same THEN x_mid_point ELSE y_mid_point,
         y_mid_point |-> IF same THEN y_mid_point ELSE x_mid_point]

\* One pass of the fitting loop's body (divider is not 0).
FitPoint(point, f, flip) ==
    LET p == IF f.rotate THEN <<point[2], point[1]>> ELSE point
        x == RAdd(RDiv(RSub(p[1], f.x_mid_point), f.divider), f.box_x_mid_point)
        y == RAdd(RDiv(RSub(p[2], f.y_mid_point), f.divider), f.box_y_mid_point)
    IN  <<IF flip # f.rotate THEN RNeg(x) ELSE x, y>>

\* The fitting loop: the lines as it leaves them, and its exception.  A
\* divider of 0 raises in the first pass, after that point's swap.
FitLines(ls, f, flip) ==
    IF RIsZero(f.divider)
    THEN [err |-> "ZeroDivisionError",
          lines |-> IF f.rotate
                    THEN [ls EXCEPT ![1][1] = <<ls[1][1][2], ls[1][1][1]>>]
                    ELSE ls]
    ELSE [err |-> "none",
          lines |-> [k \in DOMAIN ls |->
                        [j \in DOMAIN ls[k] |-> FitPoint(ls[k][j], f, flip)]]]

\* The body of the plotting loop with the pen down on the way to the line.
plot_line_pen_down(line, interpolate, pre_start) ==
    (IF ~pre_start THEN <<>>
     ELSE IF Len(line) < 2 THEN <<Step_raise("IndexError")>>
     ELSE LET p == pre_start_position(line[1], line[2])
          IN  <<Step_xy(p[1], p[2], interpolate, FALSE)>>)
    \o [j \in 1 .. Len(line) |->
           Step_xy(line[j][1], line[j][2], interpolate, TRUE)]

\* The body of the plotting loop for one line.  line[1] of a line of one
\* point raises IndexError.
plot_line(line, interpolate, pre_start) ==
    (IF ~pre_start THEN <<>>
     ELSE IF Len(line) < 2 THEN <<Step_raise("IndexError")>>
     ELSE LET p == pre_start_position(line[1], line[2])
          IN  <<Step_xy(p[1], p[2], interpolate, FALSE)>>)
    \o <<Step_xy(line[1][1], line[1][2], DefaultInterpolate, FALSE)>>
    \o [j \in 1 .. Len(line) - 1 |->
           Step_xy(line[j + 1][1], line[j + 1][2], interpolate, TRUE)]

\* for line in lines: ..., from the k-th line
RECURSIVE plot_each(_, _, _, _)
plot_each(ls, k, interpolate, pre_start) ==
    IF k > Len(ls) THEN <<>>
    ELSE plot_line(ls[k], interpolate, pre_start)
         \o plot_each(ls, k + 1, interpolate, pre_start)

\* The caller's list of lines as plot_lines leaves it.
lines_after_plot_lines(ls, flip, bounds_arg) ==
    LET b == Or(bounds_arg, bounds)
    IN  IF b = None THEN ls ELSE FitLines(ls, Fitting(ls, b), flip).lines

\* The rotate argument is overwritten before it is read.
plot_lines(ls, interpolate, pre_start, rotate, flip, bounds_arg) ==
    LET b == Or(bounds_arg, bounds)
    IN  IF b = None
        THEN <<Step_return("Line plotting is only possible when BrachioGraph.bounds is set.")>>
        ELSE LET fitted == FitLines(ls, Fitting(ls, b), flip)
             IN  IF fitted.err # "none"
                 THEN <<Step_raise(fitted.err)>>
                 ELSE plot_each(fitted.lines, 1, interpolate, pre_start) \o park

\* file_lines is what json.load reads from the file.
plot_file(file_lines, interpolate, bounds_arg, pre_start) ==
    LET b == Or(bounds_arg, bounds)
    IN  IF b = None
        THEN <<Step_return("File plotting is only possible when BrachioGraph.bounds is set.")>>
        ELSE plot_lines(file_lines, interpolate, pre_start, FALSE, TRUE, b)

(***************************************************************************)
(* Test pattern methods.                                                   *)
(***************************************************************************)
\* for y in range(bounds[1], bounds[3], 2), from y on
RECURSIVE test_pattern_rows(_, _, _)
test_pattern_rows(b, y, interpolate) ==
    IF y >= b[4] THEN <<>>
    ELSE <<Step_xy(RInt(b[1]), RInt(y), interpolate, FALSE)>>
         \o draw(RInt(b[3]), RInt(y), interpolate)
         \o <<Step_xy(RInt(b[3]), RInt(y + 1), interpolate, FALSE)>>
         \o draw(RInt(b[1]), RInt(y + 1), interpolate)
         \o test_pattern_rows(b, y + 2, interpolate)

RECURSIVE test_pattern_repeat(_, _, _)
test_pattern_repeat(b, r, interpolate) ==
    IF r = 0 THEN <<>>
    ELSE test_pattern_rows(b, b[2], interpolate)
         \o test_pattern_repeat(b, r - 1, interpolate)

test_pattern(bounds_arg, interpolate, repeat) ==
    LET b == Or(bounds_arg, bounds)
    IN  IF b = None
        THEN <<Step_return("Plotting a test pattern is only possible when BrachioGraph.bounds is set.")>>
        ELSE test_pattern_repeat(b, repeat, interpolate) \o park

\* while x <= self.bounds[2]: self.draw_line((x, top_y), (x, bottom_y))
RECURSIVE vertical_lines_loop(_, _, _, _)
vertical_lines_loop(x, step, top_y, bottom_y) ==
    IF ~RLe(x, RInt(bounds[3])) THEN <<>>
    ELSE draw_line(<<x, top_y>>, <<x, bottom_y>>, DefaultInterpolate, FALSE)
         \o vertical_lines_loop(RAdd(x, step), step, top_y, bottom_y)

\* After the test of bounds the method reads self.bounds, which may be
\* None when the bounds came as the argument: TypeError.
vertical_lines(bounds_arg, lines_n, reverse) ==
    LET b == Or(bounds_arg, bounds)
    IN  IF b = None
        THEN <<Step_return("Plotting a test pattern is only possible when BrachioGraph.bounds is set.")>>
        ELSE IF bounds = None THEN <<Step_raise("TypeError")>>
        ELSE LET top_y == RInt(IF ~reverse THEN bounds[2] ELSE bounds[4])
                 bottom_y == RInt(IF ~reverse THEN bounds[4] ELSE bounds[2])
                 step == Rat(bounds[3] - bounds[1], lines_n)
             IN  vertical_lines_loop(RInt(bounds[1]), step, top_y, bottom_y) \o park

RECURSIVE horizontal_lines_loop(_, _, _, _)
horizontal_lines_loop(y, step, min_x, max_x) ==
    IF ~RLe(y, RInt(bounds[4])) THEN <<>>
    ELSE draw_line(<<min_x, y>>, <<max_x, y>>, DefaultInterpolate, FALSE)
         \o horizontal_lines_loop(RAdd(y, step), step, min_x, max_x)

horizontal_lines(bounds_arg, lines_n, reverse) ==
    LET b == Or(bounds_arg, bounds)
    IN  IF b = None
        THEN <<Step_return("Plotting a test pattern is only possible when BrachioGraph.bounds is set.")>>
        ELSE IF bounds = None THEN <<Step_raise("TypeError")>>
        ELSE LET min_x == RInt(IF ~reverse THEN bounds[1] ELSE bounds[3])
                 max_x == RInt(IF ~reverse THEN bounds[3] ELSE bounds[1])
                 step == Rat(bounds[4] - bounds[2], lines_n)
             IN  horizontal_lines_loop(RInt(bounds[2]), step, min_x, max_x) \o park

RECURSIVE box_repeat(_, _, _, _)
box_repeat(b, r, interpolate, reverse) ==
    IF r = 0 THEN <<>>
    ELSE (IF ~reverse
          THEN draw(RInt(b[3]), RInt(b[2]), interpolate)
               \o draw(RInt(b[3]), RInt(b[4]), interpolate)
               \o draw(RInt(b[1]), RInt(b[4]), interpolate)
               \o draw(RInt(b[1]), RInt(b[2]), interpolate)
          ELSE draw(RInt(b[1]), RInt(b[4]), interpolate)
               \o draw(RInt(b[3]), RInt(b[4]), interpolate)
               \o draw(RInt(b[3]), RInt(b[2]), interpolate)
               \o draw(RInt(b[1]), RInt(b[2]), interpolate))
         \o box_repeat(b, r - 1, interpolate, reverse)

box(bounds_arg, interpolate, repeat, reverse) ==
    LET b == Or(bounds_arg, bounds)
    IN  IF b = None
        THEN <<Step_return("Box drawing is only possible when BrachioGraph.bounds is set.")>>
        ELSE <<Step_xy(RInt(b[1]), RInt(b[2]), interpolate, FALSE)>>
             \o box_repeat(b, repeat, interpolate, reverse) \o park

(***************************************************************************)
(* Pen-moving methods.                                                     *)
(***************************************************************************)
\* centre() raising the pen before it tests self.bounds
centre_pen_up_first ==
    <<Step_pen_up>>
    \o (IF bounds = None
        THEN <<Step_return("Moving to the centre is only possible when BrachioGraph.bounds is set.")>>
        ELSE <<Step_xy(Rat(bounds[3], 2), Rat(bounds[4], 2), DefaultInterpolate, FALSE),
               Step_quiet>>)

centre ==
    IF bounds = None
    THEN <<Step_return("Moving to the centre is only possible when BrachioGraph.bounds is set.")>>
    ELSE <<Step_pen_up,
           Step_xy(Rat(bounds[3], 2), Rat(bounds[4], 2), DefaultInterpolate, FALSE),
           Step_quiet>>

(***************************************************************************)
(* The inputs the model draws from.                                        *)
(***************************************************************************)
MaxJogs == 1
MaxCoord == 6
MaxInterpolate == 2

P(a, b) == <<RInt(a), RInt(b)>>
Arms == {<<4, 3>>}
BoundsChoices == {None, <<-3, 2, 1, 4>>}
BoundsArgs == {None, <<-2, 2, 0, 5>>}
Targets ==
    {P(-4, 3), P(-2, 3), P(0, 4), P(-2, 0), P(2, 0), P(0, 0), P(5, 5), P(-1, -2)}
Interpolations == 1 .. MaxInterpolate
LinePairs == {<<P(-2, 3), P(0, 4)>>, <<P(-2, 1), P(2, 0)>>, <<P(-3, 2), P(-3, 4)>>}
AnglePairs == {<<-90, 90>>, <<-45, 120>>, <<30, 60>>}
Keys == {"a", "S", "k", "L", "x"}
Drawings ==
    {<<<<P(0, 0), P(1, 2)>>>>,
     <<<<P(0, 0), P(4, 2)>>, <<P(4, 0), P(0, 2)>>>>,
     <<<<P(0, 0), P(2, 2)>>>>,
     <<<<P(1, 0), P(1, 3)>>>>,
     <<<<P(0, 1), P(3, 1)>>>>,
     <<<<P(2, 2), P(2, 2)>>>>}
LineCounts == {1, 2}
\* interpolate and pre_start of a plot
PlotOptions ==
    {[interpolate |-> 1, pre_start |-> FALSE],
     [interpolate |-> MaxInterpolate, pre_start |-> TRUE]}

(***************************************************************************)
(* The state machine.                                                      *)
(***************************************************************************)
Idle == [name |-> "idle"]

Init ==
    /\ phase = "new"
    /\ INNER_ARM = 0 /\ OUTER_ARM = 0 /\ virtual_mode = FALSE /\ bounds = None
    /\ current_x = RInt(0) /\ current_y = RInt(0) /\ angles = None
    /\ virtual_pw_1 = 0 /\ virtual_pw_2 = 0 /\ pen_virtual_pw = 0
    /\ rpi = [p \in {ShoulderPin, ElbowPin, PenPin} |-> 0]
    /\ call = Idle /\ pre = None /\ writes = <<>> /\ lines = None
    /\ last_xy = None /\ jogs = 0
    /\ probe = None

Machine == <<current_x, current_y, angles, virtual_pw_1, virtual_pw_2,
             pen_virtual_pw, rpi>>
Config == <<INNER_ARM, OUTER_ARM, virtual_mode, bounds>>

\* BrachioGraph.__init__ with Pen.__init__.  vm is self.virtual_mode: the
\* argument, or True when pigpio is not installed.  Without virtual mode the
\* Pen's first self.up() raises AttributeError and no object comes to be.
Construct ==
    /\ phase = "new"
    /\ \E arms \in Arms, vm \in BOOLEAN, b \in BoundsChoices :
          /\ INNER_ARM' = arms[1]
          /\ OUTER_ARM' = arms[2]
          /\ virtual_mode' = vm
          /\ bounds' = b
          /\ IF vm
             THEN /\ phase' = "ready"
                  /\ pen_virtual_pw' = pw_up
                  /\ virtual_pw_1' = naive_angles_to_pulse_widths_1(-90)
                  /\ virtual_pw_2' = naive_angles_to_pulse_widths_2(90)
                  /\ current_x' = RInt(-arms[1])
                  /\ current_y' = RInt(arms[2])
                  /\ call' = Idle
             ELSE /\ phase' = "raised"
                  /\ call' = [name |-> "__init__", err |-> "AttributeError"]
                  /\ UNCHANGED <<pen_virtual_pw, virtual_pw_1, virtual_pw_2,
                                 current_x, current_y>>
    /\ UNCHANGED <<angles, rpi, pre, writes, lines, last_xy, jogs, probe>>

\* A method call on the object ends with the object as r, the caller's
\* lines as ls.  No method catches an exception and neither does the
\* caller: a call that raises ends the program.
Called(name, args, r, ls) ==
    /\ current_x' = r.x
    /\ current_y' = r.y
    /\ angles' = r.angles
    /\ virtual_pw_1' = r.virtual_pw_1
    /\ virtual_pw_2' = r.virtual_pw_2
    /\ pen_virtual_pw' = r.pen_virtual_pw
    /\ rpi' = r.rpi
    /\ call' = [name |-> name, args |-> args, err |-> r.err, ret |-> r.ret]
    /\ pre' = [x |-> current_x, y |-> current_y, angles |-> angles]
    /\ writes' = r.log
    /\ lines' = ls
    /\ phase' = IF r.err = "none" THEN "ready" ELSE "raised"
    /\ UNCHANGED <<Config, probe>>

Callable == phase = "ready" /\ call = Idle

\* Control is back with the caller, who may call again.
Returns ==
    /\ phase = "ready"
    /\ call # Idle
    /\ call' = Idle
    /\ pre' = None
    /\ writes' = <<>>
    /\ lines' = None
    /\ UNCHANGED <<phase, Config, Machine, last_xy, jogs, probe>>

Call_xy ==
    /\ Callable
    /\ \E t \in Targets, i \in Interpolations, d \in BOOLEAN :
          \E r \in {xy(Self, t[1], t[2], i, d)} :
             /\ Called("xy", [x |-> t[1], y |-> t[2], interpolate |-> i,
                              draw |-> d, repeated |-> last_xy = t], r, None)
             /\ last_xy' = IF r.err = "none" THEN t ELSE None
    /\ UNCHANGED jogs

Call_draw ==
    /\ Callable
    /\ \E t \in Targets, i \in Interpolations :
          \E r \in {Run(Self, draw(t[1], t[2], i), 1)} :
             Called("draw", [x |-> t[1], y |-> t[2], interpolate |-> i], r, None)
    /\ last_xy' = None
    /\ UNCHANGED jogs

Call_draw_line ==
    /\ Callable
    /\ \E l \in LinePairs, i \in Interpolations, ps \in BOOLEAN :
          \E r \in {Run(Self, draw_line(l[1], l[2], i, ps), 1)} :
             Called("draw_line", [start |-> l[1], end |-> l[2],
                                  interpolate |-> i, pre_start |-> ps], r, None)
    /\ last_xy' = None
    /\ UNCHANGED jogs

Call_set_angles ==
    /\ Callable
    /\ \E a \in AnglePairs :
          \E r \in {set_angles(Self, a[1], a[2])} :
             Called("set_angles", [angle_1 |-> a[1], angle_2 |-> a[2]], r, None)
    /\ last_xy' = None
    /\ UNCHANGED jogs

\* One pass of drive_xy's loop: a key other than "0" is read, the position
\* is changed and xy is called on it.
Jogged(key) ==
    LET tenth == <<1, 10>>
        x == CASE key = "a" -> RSub(current_x, RInt(1))
               [] key = "s" -> RAdd(current_x, RInt(1))
               [] key = "A" -> RSub(current_x, tenth)
               [] key = "S" -> RAdd(current_x, tenth)
               [] OTHER -> current_x
        y == CASE key = "k" -> RSub(current_y, RInt(1))
               [] key = "l" -> RAdd(current_y, RInt(1))
               [] key = "K" -> RSub(current_y, tenth)
               [] key = "L" -> RAdd(current_y, tenth)
               [] OTHER -> current_y
    IN  [Self EXCEPT !.x = x, !.y = y]

drive_xy(key) ==
    LET m == Jogged(key)
    IN  xy(Said(m, <<m.x, m.y>>), m.x, m.y, DefaultInterpolate, FALSE)

Call_drive_xy ==
    /\ Callable
    /\ jogs < MaxJogs
    /\ \E key \in Keys :
          \E r \in {drive_xy(key)} :
             Called("drive_xy", [key |-> key], r, None)
    /\ jogs' = jogs + 1
    /\ last_xy' = None

Call_plot_lines ==
    /\ Callable
    /\ \E ls \in Drawings, o \in PlotOptions, rot \in BOOLEAN,
          flip \in BOOLEAN, b \in BoundsArgs :
          \E r \in {Run(Self, plot_lines(ls, o.interpolate, o.pre_start,
                                          rot, flip, b), 1)} :
             Called("plot_lines", [lines |-> ls, interpolate |-> o.interpolate,
                                   pre_start |-> o.pre_start, rotate |-> rot,
                                   flip |-> flip, bounds |-> b], r,
                    lines_after_plot_lines(ls, flip, b))
    /\ last_xy' = None
    /\ UNCHANGED jogs

Call_plot_file ==
    /\ Callable
    /\ \E ls \in Drawings, o \in PlotOptions, b \in BoundsArgs :
          \E r \in {Run(Self, plot_file(ls, o.interpolate, b, o.pre_start), 1)} :
             Called("plot_file", [lines |-> ls, interpolate |-> o.interpolate,
                                  pre_start |-> o.pre_start, flip |-> TRUE,
                                  bounds |-> b], r,
                    lines_after_plot_lines(ls, TRUE, b))
    /\ last_xy' = None
    /\ UNCHANGED jogs

Call_test_pattern ==
    /\ Callable
    /\ \E b \in BoundsArgs, i \in Interpolations :
          \E r \in {Run(Self, test_pattern(b, i, 1), 1)} :
             Called("test_pattern", [bounds |-> b, interpolate |-> i], r, None)
    /\ last_xy' = None
    /\ UNCHANGED jogs

Call_vertical_lines ==
    /\ Callable
    /\ \E b \in BoundsArgs, n \in LineCounts, rev \in BOOLEAN :
          \E r \in {Run(Self, vertical_lines(b, n, rev), 1)} :
             Called("vertical_lines", [bounds |-> b, lines |-> n,
                                       reverse |-> rev], r, None)
    /\ last_xy' = None
    /\ UNCHANGED jogs

Call_horizontal_lines ==
    /\ Callable
    /\ \E b \in BoundsArgs, n \in LineCounts, rev \in BOOLEAN :
          \E r \in {Run(Self, horizontal_lines(b, n, rev), 1)} :
             Called("horizontal_lines", [bounds |-> b, lines |-> n,
                                         reverse |-> rev], r, None)
    /\ last_xy' = None
    /\ UNCHANGED jogs

Call_box ==
    /\ Callable
    /\ \E b \in BoundsArgs, i \in Interpolations, rev \in BOOLEAN :
          \E r \in {Run(Self, box(b, i, 1, rev), 1)} :
             Called("box", [bounds |-> b, interpolate |-> i, reverse |-> rev],
                    r, None)
    /\ last_xy' = None
    /\ UNCHANGED jogs

Call_centre ==
    /\ Callable
    /\ \E r \in {Run(Self, centre, 1)} : Called("centre", [bounds |-> None], r, None)
    /\ last_xy' = None
    /\ UNCHANGED jogs

\* angles_to_xy(xy_to_angles(x, y)) for one geometry and one grid point.
RoundTrip ==
    /\ phase = "new"
    /\ probe = None
    /\ \E g \in Arms \cup {<<8, 8>>}, x \in -MaxCoord .. MaxCoord,
          y \in -MaxCoord .. MaxCoord :
          LET a == xy_to_angles(g[1], g[2], RInt(x), RInt(y))
          IN  probe' = [inner |-> g[1], outer |-> g[2], x |-> x, y |-> y,
                        angles |-> a,
                        back |-> IF a.err = "none"
                                 THEN angles_to_xy(g[1], g[2], a.angle_1, a.angle_2)
                                 ELSE [err |-> a.err, x |-> 0, y |-> 0]]
    /\ UNCHANGED <<phase, Config, Machine, call, pre, writes, lines, last_xy, jogs>>

MoveNext ==
    \/ Construct \/ Returns
    \/ Call_xy \/ Call_draw \/ Call_draw_line \/ Call_set_angles \/ Call_drive_xy

PlotNext ==
    \/ Construct \/ Returns
    \/ Call_plot_lines \/ Call_plot_file \/ Call_test_pattern
    \/ Call_vertical_lines \/ Call_horizontal_lines \/ Call_box \/ Call_centre
    \/ Call_draw \/ Call_draw_line

Next == MoveNext \/ PlotNext \/ RoundTrip

Spec == Init /\ [][Next]_vars
MoveSpec == Init /\ [][MoveNext]_vars
PlotSpec == Init /\ [][PlotNext]_vars
KinSpec == Init /\ [][RoundTrip]_vars

(***************************************************************************)
(* What a finished call shows: its name, arguments and outcome in call,    *)
(* the position and angles it began with in pre, its actuator writes and   *)
(* printed lines, in order, in writes, and the caller's lines in lines.    *)
(***************************************************************************)
Printed(text) == [sink |-> "stdout", text |-> text]
IsWrite(e) == e.sink # "stdout"
IsArmWrite(e) == IsWrite(e) /\ e.ch \in {ShoulderPin, ElbowPin}
IsPenWrite(e) == IsWrite(e) /\ e.ch = PenPin
Parked == current_x = RInt(-INNER_ARM) /\ current_y = RInt(OUTER_ARM)
Within(point, b) ==
    /\ RLe(RInt(b[1]), point[1]) /\ RLe(point[1], RInt(b[3]))
    /\ RLe(RInt(b[2]), point[2]) /\ RLe(point[2], RInt(b[4]))
Plots == call.name \in {"plot_lines", "plot_file"}
UsedBounds == Or(call.args.bounds, bounds)
Tolerance == Unit \div 2

\* C1: every pulse-width that set_pulse_widths hands to the arm actuator
\* (channel 14 or 15, of pigpio or of the virtual sink) lies in the band
\* from 500 to 2500.
C1_ArmPulseWidthsInBand ==
    \A k \in DOMAIN writes :
        IsArmWrite(writes[k]) =>
            MinPulseWidth <= writes[k].pw /\ writes[k].pw <= MaxPulseWidth

\* C2: an xy() that repeats the target of the xy() just before it leaves
\* current_x, current_y as they were and commands no arm pulse-width.
C2_RepeatedXyIsNoOp ==
    (call.name = "xy" /\ call.args.repeated) =>
        /\ current_x = pre.x /\ current_y = pre.y
        /\ \A k \in DOMAIN writes : ~IsArmWrite(writes[k])

\* C3: an xy() that fails on an unreachable position (the target or a
\* point of the path) leaves current_x, current_y and the recorded angles
\* as they were before the call.
C3_FailedMoveRestoresState ==
    (call.name = "xy"
     /\ call.err \in {"ZeroDivisionError", "ValueError: math domain error"}) =>
        current_x = pre.x /\ current_y = pre.y /\ angles = pre.angles

\* C4: an xy() that ends in a geometry error or in a pulse-width error has
\* written to no actuator, pen or arm, during the call.
C4_FailedMoveWritesNothing ==
    (call.name = "xy" /\ call.err # "none") =>
        \A k \in DOMAIN writes : ~IsWrite(writes[k])

\* C5: for a drawing with a nonzero range on both axes, every point that
\* the fitting step of plot_lines produces lies within the bounds, whatever
\* the bounds and the flip flag, rotated or not.
C5_FittedPointsWithinBounds ==
    (Plots /\ UsedBounds # None) =>
        LET f == Fitting(call.args.lines, UsedBounds)
        IN  (~RIsZero(f.x_range) /\ ~RIsZero(f.y_range)) =>
                \A k \in DOMAIN lines : \A j \in DOMAIN lines[k] :
                    Within(lines[k][j], UsedBounds)

\* C6 as claimed: each of the eight drawing operations that runs to
\* completion ends with the pen raised, the arm at the parked position and,
\* last, pulse-width 0 written to the channels 14, 15 and 18.
C6_EveryDrawingOperationParks ==
    (/\ call.name \in {"plot_file", "plot_lines", "draw_line", "draw", "box",
                       "test_pattern", "vertical_lines", "horizontal_lines"}
     /\ call.err = "none" /\ call.ret = "None") =>
        /\ pen_virtual_pw = pw_up
        /\ Parked
        /\ Len(writes) >= 3
        /\ \E w \in [{ShoulderPin, ElbowPin, PenPin} -> 0 .. 2] :
              \A p \in DOMAIN w :
                 /\ \A q \in DOMAIN w : w[p] = w[q] => p = q
                 /\ IsWrite(writes[Len(writes) - w[p]])
                 /\ writes[Len(writes) - w[p]].ch = p
                 /\ writes[Len(writes) - w[p]].pw = 0

\* C6: each of plot_file, plot_lines, box, test_pattern, vertical_lines and
\* horizontal_lines that runs to completion ends with park(): "Parking" is
\* printed, the pen is raised, the arm is moved to the parked position with
\* the pen kept up, and last quiet() prints "Going quiet"; no pulse-width 0
\* is written.
C6_PlottingOperationsPark ==
    (/\ call.name \in {"plot_file", "plot_lines", "box", "test_pattern",
                       "vertical_lines", "horizontal_lines"}
     /\ call.err = "none" /\ call.ret = "None") =>
        /\ pen_virtual_pw = pw_up
        /\ Parked
        /\ \E i \in DOMAIN writes :
              /\ writes[i] = Printed("Parking")
              /\ i + 2 <= Len(writes)
              /\ writes[i + 1] = Wrote("virtual", PenPin, pw_up)
              /\ \A k \in i + 1 .. Len(writes) - 1 :
                    /\ IsWrite(writes[k])
                    /\ IsPenWrite(writes[k]) => writes[k].pw = pw_up
              /\ writes[Len(writes)] = Printed("Going quiet")
        /\ \A k \in DOMAIN writes : IsWrite(writes[k]) => writes[k].pw # 0

\* A box has been drawn and the arm parked after it.
C6_BoxDrawnAndParked ==
    /\ call.name = "box" /\ call.err = "none" /\ call.ret = "None"
    /\ \E k \in DOMAIN writes : writes[k] = Wrote("virtual", PenPin, pw_down)
    /\ Parked

\* C7: from construction on, the recorded angles are defined and are
\* xy_to_angles(current_x, current_y).
C7_AnglesMatchPosition ==
    phase = "ready" =>
        /\ angles # None
        /\ LET a == xy_to_angles(INNER_ARM, OUTER_ARM, current_x, current_y)
           IN  a.err = "none" /\ angles = <<a.angle_1, a.angle_2>>

\* C8 as claimed: a drawing whose x range or y range is 0 makes plot_lines
\* end in an error with no point rescaled and nothing plotted.
C8_DegenerateDrawingIsAnError ==
    (Plots /\ UsedBounds # None) =>
        LET f == Fitting(call.args.lines, UsedBounds)
        IN  (RIsZero(f.x_range) \/ RIsZero(f.y_range)) =>
                /\ call.err # "none"
                /\ lines = call.args.lines
                /\ writes = <<>>

\* C8: a drawing whose x range and y range are both 0 makes plot_lines
\* raise ZeroDivisionError with no point rescaled, nothing written and the
\* position unchanged; a drawing with exactly one range of 0 is fitted with
\* the other axis's divider and its plotting begins.
C8_OnlyAPointDrawingRaises ==
    (Plots /\ UsedBounds # None) =>
        LET f == Fitting(call.args.lines, UsedBounds)
        IN  /\ (RIsZero(f.x_range) /\ RIsZero(f.y_range)) =>
                  /\ call.err = "ZeroDivisionError"
                  /\ lines = call.args.lines
                  /\ writes = <<>>
                  /\ current_x = pre.x /\ current_y = pre.y
            /\ (RIsZero(f.x_range) # RIsZero(f.y_range)) =>
                  /\ ~RIsZero(f.divider)
                  /\ \A k \in DOMAIN lines : Len(lines[k]) = Len(call.args.lines[k])
                  /\ \E k \in DOMAIN writes : IsWrite(writes[k])

\* plot_lines has raised on a drawing of one repeated point.
C8_PointDrawingRaised ==
    /\ call.name = "plot_lines" /\ UsedBounds # None
    /\ LET f == Fitting(call.args.lines, UsedBounds)
       IN  RIsZero(f.x_range) /\ RIsZero(f.y_range)
    /\ call.err = "ZeroDivisionError"

\* C9: for every position in reach, those with y < 0 included,
\* angles_to_xy(xy_to_angles(x, y)) is (x, y) within the tolerance.
C9_RoundTrip ==
    (probe # None /\ probe.angles.err = "none") =>
        /\ probe.back.err = "none"
        /\ Abs(probe.back.x - probe.x * Unit) <= Tolerance
        /\ Abs(probe.back.y - probe.y * Unit) <= Tolerance

\* C10: with no bounds argument and no self.bounds, each of plot_file,
\* plot_lines, test_pattern, vertical_lines, horizontal_lines, box and
\* centre returns a message and does nothing else: no pen or arm command,
\* the lines given to it and current_x, current_y unchanged.
C10_MissingBoundsIsNoOp ==
    (/\ call.name \in {"plot_file", "plot_lines", "test_pattern",
                       "vertical_lines", "horizontal_lines", "box", "centre"}
     /\ UsedBounds = None) =>
        /\ call.err = "none"
        /\ call.ret # "None"
        /\ writes = <<>>
        /\ current_x = pre.x /\ current_y = pre.y
        /\ Plots => lines = call.args.lines

\* centre() has been called on an object without bounds, away from the
\* parked position.
C10_CentreWithoutBounds ==
    /\ call.name = "centre" /\ bounds = None
    /\ call.ret = "Moving to the centre is only possible when BrachioGraph.bounds is set."
    /\ ~Parked

\* The lines as fitted when the orientation decision is that of keep, which
\* says of a drawing's ranges xr, yr and a box's ranges bxr, byr whether
\* the drawing stays unrotated: the divider is max(xr/bxr, yr/byr) then, and
\* max(xr/byr, yr/bxr) with the points turned and the mid points swapped
\* otherwise.
Ge(a, b) == b[1] * a[2] <= a[1] * b[2]
Larger(a, b) == IF Ge(a, b) THEN a ELSE b
FittedWith(keep(_, _, _, _), ls, b, flip) ==
    LET xr == RSub(MaxOf(ls, 1), MinOf(ls, 1))
        yr == RSub(MaxOf(ls, 2), MinOf(ls, 2))
        xm == RDiv(RAdd(MaxOf(ls, 1), MinOf(ls, 1)), RInt(2))
        ym == RDiv(RAdd(MaxOf(ls, 2), MinOf(ls, 2)), RInt(2))
        bxr == RInt(b[3] - b[1])
        byr == RInt(b[4] - b[2])
        unrotated == keep(xr, yr, bxr, byr)
        divider == IF unrotated THEN Larger(RDiv(xr, bxr), RDiv(yr, byr))
                   ELSE Larger(RDiv(xr, byr), RDiv(yr, bxr))
        Fit(p) ==
            LET u == IF unrotated THEN p[1] ELSE p[2]
                v == IF unrotated THEN p[2] ELSE p[1]
                mu == IF unrotated THEN xm ELSE ym
                mv == IF unrotated THEN ym ELSE xm
                x == RAdd(RDiv(RSub(u, mu), divider), Rat(b[1] + b[3], 2))
                y == RAdd(RDiv(RSub(v, mv), divider), Rat(b[2] + b[4], 2))
            IN  <<IF flip = unrotated THEN RNeg(x) ELSE x, y>>
    IN  [k \in DOMAIN ls |-> [j \in DOMAIN ls[k] |-> Fit(ls[k][j])]]
KeepAsClaimed(xr, yr, bxr, byr) == Ge(xr, yr) = Ge(bxr, byr)
KeepWhenBothAgree(xr, yr, bxr, byr) ==
    \/ Ge(xr, yr) /\ Ge(bxr, byr)
    \/ Ge(yr, xr) /\ Ge(byr, bxr)
Fittable ==
    /\ Plots /\ UsedBounds # None
    /\ LET f == Fitting(call.args.lines, UsedBounds)
       IN  ~RIsZero(f.x_range) \/ ~RIsZero(f.y_range)

\* C11 as claimed: plot_lines leaves the drawing unrotated exactly when
\* (xRange >= yRange) == (boxXRange >= boxYRange) and rotates it in every
\* other case, ties included, with the divider and mid points of the case,
\* whatever the caller's rotate argument.
C11_OrientationByEquivalence ==
    Fittable =>
        lines = FittedWith(KeepAsClaimed, call.args.lines, UsedBounds,
                           call.args.flip)

\* C11: plot_lines leaves the drawing unrotated exactly when xRange >= yRange
\* and boxXRange >= boxYRange, or xRange <= yRange and boxXRange <=
\* boxYRange, so that a tie on either side keeps it unrotated; otherwise it
\* is rotated; the divider and the mid points are those of the case, and the
\* caller's rotate argument changes nothing.
C11_OrientationWhenBothAgree ==
    Fittable =>
        lines = FittedWith(KeepWhenBothAgree, call.args.lines, UsedBounds,
                           call.args.flip)

\* plot_lines has been given rotate=True and a square drawing for a box
\* that is taller than wide, and has left it unrotated.
C11_SquareInTallBox ==
    /\ call.name = "plot_lines" /\ UsedBounds # None
    /\ call.args.rotate
    /\ LET f == Fitting(call.args.lines, UsedBounds)
       IN  /\ f.x_range = f.y_range /\ ~RIsZero(f.x_range)
           /\ ~RLe(f.box_y_range, f.box_x_range)
    /\ lines = FittedWith(KeepWhenBothAgree, call.args.lines, UsedBounds,
                          call.args.flip)
    /\ lines # FittedWith(KeepAsClaimed, call.args.lines, UsedBounds,
                          call.args.flip)

\* The square of length * interpolate for a move by (dx, dy), a rational,
\* and its square root truncated and rounded to the nearest integer.
SquaredSteps(dx, dy, interpolate) ==
    RMul(RAdd(RMul(dx, dx), RMul(dy, dy)), RInt(interpolate * interpolate))
Truncated(q) ==
    CHOOSE n \in 0 .. 4 * MaxCoord * MaxInterpolate :
        n * n * q[2] <= q[1] /\ q[1] < (n + 1) * (n + 1) * q[2]
Nearest(q) ==
    CHOOSE n \in 0 .. 4 * MaxCoord * MaxInterpolate :
        /\ n = 0 \/ (2 * n - 1) * (2 * n - 1) * q[2] <= 4 * q[1]
        /\ 4 * q[1] < (2 * n + 1) * (2 * n + 1) * q[2]
AtLeastOne(n) == IF n = 0 THEN 1 ELSE n
ArmCommands == {k \in DOMAIN writes : IsWrite(writes[k]) /\ writes[k].ch = ShoulderPin}
\* An xy() has returned after a stepped move.
SteppedMove == call.name = "xy" /\ call.err = "none" /\ ArmCommands # {}
\* The writes are the pen's and then, for each of steps points spaced
\* evenly from the start to the target, those of one arm command.
CommandsAlongPath(steps) ==
    LET dx == RDiv(RSub(call.args.x, pre.x), RInt(steps))
        dy == RDiv(RSub(call.args.y, pre.y), RInt(steps))
    IN  /\ Len(writes) = 1 + 2 * steps
        /\ IsPenWrite(writes[1])
        /\ \A k \in 1 .. steps :
              LET a == xy_to_angles(INNER_ARM, OUTER_ARM,
                                    RAdd(pre.x, RMul(RInt(k), dx)),
                                    RAdd(pre.y, RMul(RInt(k), dy)))
                  pw == angles_to_pulse_widths(a.angle_1, a.angle_2)
              IN  /\ a.err = "none"
                  /\ writes[2 * k] =
                        Wrote("virtual", ShoulderPin, naive_angles_to_pulse_widths_1(pw[1]))
                  /\ writes[2 * k + 1] =
                        Wrote("virtual", ElbowPin, naive_angles_to_pulse_widths_2(pw[2]))
        /\ current_x = call.args.x /\ current_y = call.args.y

\* C12 as claimed: a move of length d that is not short-circuited issues
\* max(1, round(d * interpolate)) arm commands, rounded to the nearest
\* integer, one for each interpolated point.
C12_StepsRounded ==
    SteppedMove =>
        CommandsAlongPath(AtLeastOne(Nearest(
            SquaredSteps(RSub(call.args.x, pre.x), RSub(call.args.y, pre.y),
                         call.args.interpolate))))

\* C12: a move of length d that is not short-circuited and raises nothing
\* issues max(1, int(d * interpolate)) arm commands, truncated and not
\* rounded, one for each interpolated point, each point (dx/steps, dy/steps)
\* further than the one before, the last being the target.
C12_StepsTruncated ==
    SteppedMove =>
        CommandsAlongPath(AtLeastOne(Truncated(
            SquaredSteps(RSub(call.args.x, pre.x), RSub(call.args.y, pre.y),
                         call.args.interpolate))))

\* An xy() has moved the arm over a length whose product with interpolate
\* truncates and rounds to different integers.
C12_MoveOfFractionalLength ==
    /\ SteppedMove
    /\ LET q == SquaredSteps(RSub(call.args.x, pre.x), RSub(call.args.y, pre.y),
                             call.args.interpolate)
       IN  Truncated(q) >= 1 /\ Nearest(q) = Truncated(q) + 1

\* C13: after a set_pulse_widths(pw_1, pw_2) that raised nothing, here the
\* one made by set_angles, get_pulse_widths() returns (pw_1, pw_2).
C13_ReadBackIsLastCommand ==
    (call.name = "set_angles" /\ call.err = "none") =>
        get_pulse_widths(Self) =
            angles_to_pulse_widths(call.args.angle_1, call.args.angle_2)

\* The moves that plotting the fitted lines ls is to make, in order, each
\* with the pulse-width the pen is to have during it: to the lead-in point
\* if there is one and to the first point of each line with the pen up, to
\* each further point of the line with the pen down, and after the last
\* line the pen raised and the move to the parked position with the pen up.
Move(pen, to) == [pen |-> pen, to |-> to]
RECURSIVE MovesOfPlot(_, _, _)
MovesOfPlot(ls, k, lead_in) ==
    IF k > Len(ls)
    THEN <<Move(pw_up, None), Move(pw_up, P(-INNER_ARM, OUTER_ARM))>>
    ELSE IF lead_in /\ Len(ls[k]) < 2 THEN <<>>
    ELSE (IF lead_in
          THEN <<Move(pw_up, pre_start_position(ls[k][1], ls[k][2]))>>
          ELSE <<>>)
         \o <<Move(pw_up, ls[k][1])>>
         \o [j \in 1 .. Len(ls[k]) - 1 |-> Move(pw_down, ls[k][j + 1])]
         \o MovesOfPlot(ls, k + 1, lead_in)
\* Where in writes the pen commands are, in order.
IsPenCommand(k) == IsPenWrite(writes[k])
PenCommands == SelectSeq([k \in DOMAIN writes |-> k], IsPenCommand)
\* The arm writes between the pen command at from and the write at till.
ArmWritesBetween(from, till) ==
    {k \in from + 1 .. till - 1 : IsArmWrite(writes[k])}
ArmAt(point) ==
    LET a == xy_to_angles(INNER_ARM, OUTER_ARM, point[1], point[2])
        pw == angles_to_pulse_widths(a.angle_1, a.angle_2)
    IN  <<Wrote("virtual", ShoulderPin, naive_angles_to_pulse_widths_1(pw[1])),
          Wrote("virtual", ElbowPin, naive_angles_to_pulse_widths_2(pw[2]))>>

\* C14: while plot_lines plots, the pen commands are those of the moves of
\* the drawing, in order: up for the lead-in, for the move to the first point
\* of each line and for the move to the parked position, down for the moves
\* to the second to last points of each line; each pen command comes before
\* the arm commands of its move, which end at the point the move is to
\* reach, so no arm command between two lines is made with the pen down.
C14_PenUpBetweenLines ==
    Fittable =>
        LET moves == MovesOfPlot(lines, 1, call.args.pre_start)
            pens == PenCommands
            n == Len(pens)
        IN  /\ n <= Len(moves)
            /\ call.err = "none" => n = Len(moves)
            /\ \A k \in DOMAIN writes :
                  IsArmWrite(writes[k]) => n >= 1 /\ pens[1] < k
            /\ \A j \in 1 .. n :
                  LET arm == ArmWritesBetween(pens[j],
                                 IF j < n THEN pens[j + 1] ELSE Len(writes) + 1)
                  IN  /\ writes[pens[j]].pw = moves[j].pen
                      /\ (arm # {} /\ (j < n \/ call.err = "none")) =>
                            /\ moves[j].to # None
                            /\ \E k \in arm :
                                  /\ k + 1 \in arm
                                  /\ \A i \in arm : i <= k + 1
                                  /\ <<writes[k], writes[k + 1]>> = ArmAt(moves[j].to)

\* plot_lines has plotted a drawing of two lines with lead-ins and parked:
\* the arm has travelled from the end of the first line to the second.
C14_TwoLinesPlotted ==
    /\ call.name = "plot_lines" /\ call.err = "none" /\ UsedBounds # None
    /\ call.args.pre_start
    /\ Len(lines) = 2
    /\ \E a \in DOMAIN writes :
          /\ IsArmWrite(writes[a])
          /\ \E i \in 1 .. a - 1 : IsPenWrite(writes[i]) /\ writes[i].pw = pw_down
          /\ \E k \in a + 1 .. Len(writes) :
                IsPenWrite(writes[k]) /\ writes[k].pw = pw_down
          /\ \E j \in 1 .. a - 1 :
                /\ IsPenWrite(writes[j]) /\ writes[j].pw = pw_up
                /\ \A i \in j + 1 .. a - 1 : ~IsPenWrite(writes[i])

====
